---------------------------- MODULE Spec2Model ----------------------------
(***************************************************************************)
(* A model of libsodium's crypto_core/ed25519/core_ed25519.c: the scalar   *)
(* ring, the point validator and group operations, the hash-to-curve       *)
(* expansion and the rejection-sampling scalar generator.                  *)
(*                                                                         *)
(* Byte buffers are sequences of bytes (0..255), index 1 being C index 0.  *)
(*                                                                         *)
(* Scale.  TLC's integers are 32 bits wide, so the scalar ring is checked  *)
(* on a one-byte instance of the library's 32-byte one: a scalar is        *)
(* SCALARBYTES bytes, a non-reduced scalar twice that, and the group order *)
(* keeps the library's shape L = 2^(8*SCALARBYTES-4) + c (a prime whose    *)
(* top byte is 0x10 plus a tail, just above a sixteenth of the scalar      *)
(* range), so that the mask 0x1f of the last byte bounds a value below 2L  *)
(* exactly as in the library.  Every byte-level step of the wrappers       *)
(* (zero-extension, the byte count handed to sodium_add, the position of L *)
(* in the minuend) is kept.  The hash-to-curve part keeps the library's    *)
(* real sizes (64-byte digests, 48-byte seeds, 128-byte block, 33-byte     *)
(* suite tags, the 255 limit).                                             *)
(***************************************************************************)
EXTENDS Integers, Sequences, FiniteSets, TLC

VARIABLES
    \* scalar ring session
    sx, sy, sz, sret, shist,
    \* crypto_core_ed25519_scalar_random
    rraw, rr, rpc,
    \* point validator and group operations
    pp, pq, pr, pret, pop,
    \* hash-to-curve expansion
    hcaller, hn, hsuite, hsuite_len, hctx, hmsg, hpc, hi, ht, hu0, hu,
    hashLog, fhLog, hpx, hret, hp, hres

svars == <<sx, sy, sz, sret, shist>>
rvars == <<rraw, rr, rpc>>
pvars == <<pp, pq, pr, pret, pop>>
hvars == <<hcaller, hn, hsuite, hsuite_len, hctx, hmsg, hpc, hi, ht, hu0, hu,
           hashLog, fhLog, hpx, hret, hp, hres>>
vars == <<svars, rvars, pvars, hvars>>

-----------------------------------------------------------------------------
(* Bytes and buffers *)

Byte == 0..255

\* memset(buf, 0, n)
Zeros(n) == [i \in 1..n |-> 0]

\* every buffer of n bytes
Buffers(n) == [1..n -> Byte]

\* the unsigned integer a little-endian buffer encodes
RECURSIVE LoadLE(_)
LoadLE(b) == IF b = <<>> THEN 0 ELSE b[1] + 256 * LoadLE(Tail(b))

\* the n-byte little-endian encoding of v (v mod 2^(8n))
RECURSIVE StoreLE(_, _)
StoreLE(v, n) == IF n = 0 THEN <<>> ELSE <<v % 256>> \o StoreLE(v \div 256, n - 1)

\* memcpy(dst + off, src, Len(src)), off counted from 0
MemcpyAt(dst, off, src) ==
    [i \in 1..Len(dst) |->
        IF i > off /\ i <= off + Len(src) THEN src[i - off] ELSE dst[i]]

\* sodium_is_zero(n, nlen): 1 when every byte is zero
sodium_is_zero(n) == IF \A i \in 1..Len(n) : n[i] = 0 THEN 1 ELSE 0

\* sodium_add(a, b, len): a += b over the first len bytes, little-endian, the
\* carry out of byte len - 1 dropped; the bytes of a past len are untouched
RECURSIVE AddBytes(_, _, _, _, _)
AddBytes(a, b, len, i, c) ==
    IF i > len THEN a
    ELSE LET s == c + a[i] + b[i]
         IN AddBytes([a EXCEPT ![i] = s % 256], b, len, i + 1, s \div 256)

sodium_add(a, b, len) == AddBytes(a, b, len, 1, 0)

\* sodium_sub(a, b, len): a -= b over the first len bytes, the borrow out of
\* byte len - 1 dropped
RECURSIVE SubBytes(_, _, _, _, _)
SubBytes(a, b, len, i, c) ==
    IF i > len THEN a
    ELSE LET d == a[i] - b[i] - c
         IN SubBytes([a EXCEPT ![i] = d % 256], b, len, i + 1,
                     IF d < 0 THEN 1 ELSE 0)

sodium_sub(a, b, len) == SubBytes(a, b, len, 1, 0)

-----------------------------------------------------------------------------
(* Scalar ring *)

SCALARBYTES == 1

NONREDUCEDSCALARBYTES == 2 * SCALARBYTES

\* the group order: 2^252 + 27742317777372353535851937790883648493 in the
\* library, here the prime of the same shape for SCALARBYTES bytes
L == StoreLE(2 ^ (8 * SCALARBYTES - 4) + 3, SCALARBYTES)

LInt == LoadLE(L)

Scalars == Buffers(SCALARBYTES)

\* sc25519_is_canonical(s): 1 when s < L
sc25519_is_canonical(s) == IF LoadLE(s) < LInt THEN 1 ELSE 0

\* sc25519_reduce(t): the first SCALARBYTES bytes of the 64-byte t become
\* t mod L, the rest is left as it was
sc25519_reduce(t) == MemcpyAt(t, 0, StoreLE(LoadLE(t) % LInt, SCALARBYTES))

\* sc25519_mul(z, x, y): z = x * y mod L
sc25519_mul(x, y) == StoreLE((LoadLE(x) * LoadLE(y)) % LInt, SCALARBYTES)

\* b^e mod L by repeated multiplication
RECURSIVE PowModL(_, _)
PowModL(b, e) == IF e = 0 THEN 1 % LInt ELSE (b * PowModL(b, e - 1)) % LInt

\* sc25519_invert(recip, s): recip = s^(L-2) mod L, which is 0 for s = 0 mod L
sc25519_invert(s) == StoreLE(PowModL(LoadLE(s) % LInt, LInt - 2), SCALARBYTES)

crypto_core_ed25519_scalar_reduce(s) ==
    LET t == sc25519_reduce(s)
    IN SubSeq(t, 1, SCALARBYTES)

crypto_core_ed25519_scalar_invert(s) ==
    [recip |-> sc25519_invert(s), ret |-> 0 - sodium_is_zero(s)]

\* the negation with the reduction left out
crypto_core_ed25519_scalar_negate_NoReduce(s) ==
    LET t0 == MemcpyAt(Zeros(NONREDUCEDSCALARBYTES), SCALARBYTES, L)
        s_ == MemcpyAt(Zeros(NONREDUCEDSCALARBYTES), 0, s)
        t1 == sodium_sub(t0, s_, NONREDUCEDSCALARBYTES)
    IN SubSeq(t1, 1, SCALARBYTES)

crypto_core_ed25519_scalar_negate(s) ==
    LET t0 == MemcpyAt(Zeros(NONREDUCEDSCALARBYTES), SCALARBYTES, L)
        s_ == MemcpyAt(Zeros(NONREDUCEDSCALARBYTES), 0, s)
        t1 == sodium_sub(t0, s_, NONREDUCEDSCALARBYTES)
        t2 == sc25519_reduce(t1)
    IN SubSeq(t2, 1, SCALARBYTES)

crypto_core_ed25519_scalar_complement(s) ==
    LET tz == Zeros(NONREDUCEDSCALARBYTES)
        ti == [tz EXCEPT ![1] = (tz[1] + 1) % 256]
        t0 == MemcpyAt(ti, SCALARBYTES, L)
        s_ == MemcpyAt(Zeros(NONREDUCEDSCALARBYTES), 0, s)
        t1 == sodium_sub(t0, s_, NONREDUCEDSCALARBYTES)
        t2 == sc25519_reduce(t1)
    IN SubSeq(t2, 1, SCALARBYTES)

crypto_core_ed25519_scalar_add(x, y) ==
    LET x_ == MemcpyAt(Zeros(NONREDUCEDSCALARBYTES), 0, x)
        y_ == MemcpyAt(Zeros(NONREDUCEDSCALARBYTES), 0, y)
        x1 == sodium_add(x_, y_, SCALARBYTES)
    IN crypto_core_ed25519_scalar_reduce(x1)

crypto_core_ed25519_scalar_sub(x, y) ==
    LET yn == crypto_core_ed25519_scalar_negate(y)
    IN crypto_core_ed25519_scalar_add(x, yn)

crypto_core_ed25519_scalar_mul(x, y) == sc25519_mul(x, y)


(* A session on the scalar ring: operand x is drawn at the start, a first   *)
(* operation is applied to x (and to an operand y drawn with the call), and *)
(* a second one to the result z, paired with the operand that produced it.  *)

NoScalar == <<>>

ScalarIdle ==
    /\ sx = Zeros(SCALARBYTES)
    /\ sy = Zeros(SCALARBYTES)
    /\ sz = NoScalar
    /\ sret = 0
    /\ shist = <<>>

\* the operand pairs (a, b) a two-operand call may be given in this state
BinaryOperands ==
    IF shist = <<>>
    THEN {[a |-> sx, b |-> y, y |-> y, args |-> "xy"] : y \in Scalars}
    ELSE IF Len(shist) = 1 /\ shist[1].args = "xy"
    THEN {[a |-> sz, b |-> sy, y |-> sy, args |-> "zy"]}
    ELSE IF Len(shist) = 1 /\ shist[1].args = "x"
    THEN {[a |-> sx, b |-> sz, y |-> sy, args |-> "xz"]}
    ELSE {}

\* the operand a one-operand call may be given in this state
UnaryOperands ==
    IF shist = <<>> THEN {[a |-> sx, args |-> "x"]} ELSE {}

ScalarAdd ==
    \E o \in BinaryOperands :
        /\ sz' = crypto_core_ed25519_scalar_add(o.a, o.b)
        /\ sy' = o.y
        /\ shist' = Append(shist, [op |-> "add", args |-> o.args])
        /\ UNCHANGED <<sx, sret, rvars, pvars, hvars>>

ScalarSub ==
    \E o \in BinaryOperands :
        /\ sz' = crypto_core_ed25519_scalar_sub(o.a, o.b)
        /\ sy' = o.y
        /\ shist' = Append(shist, [op |-> "sub", args |-> o.args])
        /\ UNCHANGED <<sx, sret, rvars, pvars, hvars>>

ScalarMul ==
    \E o \in BinaryOperands :
        /\ sz' = crypto_core_ed25519_scalar_mul(o.a, o.b)
        /\ sy' = o.y
        /\ shist' = Append(shist, [op |-> "mul", args |-> o.args])
        /\ UNCHANGED <<sx, sret, rvars, pvars, hvars>>

ScalarNegate ==
    \E o \in UnaryOperands :
        /\ sz' = crypto_core_ed25519_scalar_negate(o.a)
        /\ shist' = Append(shist, [op |-> "negate", args |-> o.args])
        /\ UNCHANGED <<sx, sy, sret, rvars, pvars, hvars>>

ScalarComplement ==
    \E o \in UnaryOperands :
        /\ sz' = crypto_core_ed25519_scalar_complement(o.a)
        /\ shist' = Append(shist, [op |-> "complement", args |-> o.args])
        /\ UNCHANGED <<sx, sy, sret, rvars, pvars, hvars>>

ScalarInvert ==
    \E o \in UnaryOperands :
        LET r == crypto_core_ed25519_scalar_invert(o.a)
        IN /\ sz' = r.recip
           /\ sret' = r.ret
           /\ shist' = Append(shist, [op |-> "invert", args |-> o.args])
           /\ UNCHANGED <<sx, sy, rvars, pvars, hvars>>

\* reduce is given the 64-byte buffer whose low half is x and high half y
ScalarReduce ==
    /\ shist = <<>>
    /\ \E y \in Scalars :
        /\ sz' = crypto_core_ed25519_scalar_reduce(sx \o y)
        /\ sy' = y
        /\ shist' = Append(shist, [op |-> "reduce", args |-> "x|y"])
        /\ UNCHANGED <<sx, sret, rvars, pvars, hvars>>

ScalarNext ==
    \/ ScalarAdd \/ ScalarSub \/ ScalarMul
    \/ ScalarNegate \/ ScalarComplement \/ ScalarInvert
    \/ ScalarReduce

-----------------------------------------------------------------------------
(* crypto_core_ed25519_scalar_random *)

\* r[SCALARBYTES - 1] &= 0x1f
ClearTopBits(r) == [r EXCEPT ![SCALARBYTES] = r[SCALARBYTES] % 32]

\* a pass whose loop condition forgets the zero test
ScalarRandomPass_NoZeroTest(b) ==
    LET r == ClearTopBits(b)
    IN [r |-> r, again |-> sc25519_is_canonical(r) = 0]

\* one pass of the do-while body on the bytes b that randombytes_buf yields:
\* the buffer after the mask, and whether the loop condition asks for a redraw
ScalarRandomPass(b) ==
    LET r == ClearTopBits(b)
    IN [r |-> r,
        again |-> sc25519_is_canonical(r) = 0 \/ sodium_is_zero(r) # 0]

RandomIdle ==
    /\ rraw = Zeros(SCALARBYTES)
    /\ rr = Zeros(SCALARBYTES)
    /\ rpc = "loop"

\* a pass whose draw is rejected: the loop goes round again
RandomRedraw ==
    /\ rpc = "loop"
    /\ \E b \in Scalars :
        /\ ScalarRandomPass(b).again
        /\ rraw' = b
        /\ rr' = ScalarRandomPass(b).r
        /\ rpc' = "loop"
    /\ UNCHANGED <<svars, pvars, hvars>>

\* a pass whose draw is accepted: the function returns
RandomReturn ==
    /\ rpc = "loop"
    /\ \E b \in Scalars :
        /\ ~ScalarRandomPass(b).again
        /\ rraw' = b
        /\ rr' = ScalarRandomPass(b).r
        /\ rpc' = "done"
    /\ UNCHANGED <<svars, pvars, hvars>>

RandomNext == RandomRedraw \/ RandomReturn

-----------------------------------------------------------------------------
(* Points: the group primitive and the wrappers over it *)

(* The curve group is cyclic of order 8 * L; a decoded element is its index *)
(* e in that group (0 the identity), the main subgroup being the multiples  *)
(* of 8 and the small-order elements the multiples of L.  A 32-byte point   *)
(* encoding is one of: a canonical or a non-canonical encoding of an        *)
(* element, a string that does not decode, a string that decodes to an      *)
(* element off the curve.                                                   *)

GroupOrder == 8 * LInt

PointEnc(e, c) == [k |-> "pt", e |-> e, c |-> c]

BadEnc == [k |-> "bad", e |-> 0, c |-> TRUE]

OffEnc == [k |-> "off", e |-> 0, c |-> TRUE]

\* an output buffer nothing was written to
NoPoint == [k |-> "unwritten", e |-> 0, c |-> TRUE]

Encodings ==
    {PointEnc(e, c) : e \in 0..(GroupOrder - 1), c \in BOOLEAN} \cup {BadEnc, OffEnc}

\* ge25519_frombytes(&h, s): 0 and the decoded element, or -1
ge25519_frombytes(s) ==
    [rc |-> IF s.k \in {"pt", "off"} THEN 0 ELSE 0 - 1,
     h |-> [on |-> s.k = "pt", e |-> s.e]]

ge25519_is_on_curve(h) == IF h.on THEN 1 ELSE 0

ge25519_is_canonical(s) == IF s.c THEN 1 ELSE 0

ge25519_has_small_order(s) ==
    IF s.k = "pt" /\ (8 * s.e) % GroupOrder = 0 THEN 1 ELSE 0

ge25519_is_on_main_subgroup(h) ==
    IF (LInt * h.e) % GroupOrder = 0 THEN 1 ELSE 0

\* ge25519_p3_to_cached, ge25519_add, ge25519_p1p1_to_p3
ge25519_add(p, q) == [on |-> TRUE, e |-> (p.e + q.e) % GroupOrder]

\* ge25519_p3_to_cached, ge25519_sub, ge25519_p1p1_to_p3
ge25519_sub(p, q) == [on |-> TRUE, e |-> (p.e + GroupOrder - q.e) % GroupOrder]

ge25519_p3_tobytes(h) == PointEnc(h.e, TRUE)

crypto_core_ed25519_is_valid_point(p) ==
    IF \/ ge25519_is_canonical(p) = 0
       \/ ge25519_has_small_order(p) # 0
       \/ ge25519_frombytes(p).rc # 0
       \/ ge25519_is_on_curve(ge25519_frombytes(p).h) = 0
       \/ ge25519_is_on_main_subgroup(ge25519_frombytes(p).h) = 0
    THEN 0
    ELSE 1

\* the addition guarded by the full validity check instead
crypto_core_ed25519_add_Strict(r, p, q) ==
    IF \/ crypto_core_ed25519_is_valid_point(p) = 0
       \/ crypto_core_ed25519_is_valid_point(q) = 0
    THEN [ret |-> 0 - 1, r |-> r]
    ELSE [ret |-> 0,
          r |-> ge25519_p3_tobytes(
                    ge25519_add(ge25519_frombytes(p).h, ge25519_frombytes(q).h))]

\* the return value, and the buffer r as the call leaves it
crypto_core_ed25519_add(r, p, q) ==
    IF \/ ge25519_frombytes(p).rc # 0
       \/ ge25519_is_on_curve(ge25519_frombytes(p).h) = 0
       \/ ge25519_frombytes(q).rc # 0
       \/ ge25519_is_on_curve(ge25519_frombytes(q).h) = 0
    THEN [ret |-> 0 - 1, r |-> r]
    ELSE [ret |-> 0,
          r |-> ge25519_p3_tobytes(
                    ge25519_add(ge25519_frombytes(p).h, ge25519_frombytes(q).h))]

crypto_core_ed25519_sub(r, p, q) ==
    IF \/ ge25519_frombytes(p).rc # 0
       \/ ge25519_is_on_curve(ge25519_frombytes(p).h) = 0
       \/ ge25519_frombytes(q).rc # 0
       \/ ge25519_is_on_curve(ge25519_frombytes(q).h) = 0
    THEN [ret |-> 0 - 1, r |-> r]
    ELSE [ret |-> 0,
          r |-> ge25519_p3_tobytes(
                    ge25519_sub(ge25519_frombytes(p).h, ge25519_frombytes(q).h))]

PointIdle ==
    /\ pp = NoPoint
    /\ pq = NoPoint
    /\ pr = NoPoint
    /\ pret = 0
    /\ pop = "idle"

PointAdd ==
    /\ pop = "idle"
    /\ \E q \in Encodings :
        LET res == crypto_core_ed25519_add(pr, pp, q)
        IN /\ pq' = q
           /\ pr' = res.r
           /\ pret' = res.ret
           /\ pop' = "add"
           /\ UNCHANGED <<pp, svars, rvars, hvars>>

PointSub ==
    /\ pop = "idle"
    /\ \E q \in Encodings :
        LET res == crypto_core_ed25519_sub(pr, pp, q)
        IN /\ pq' = q
           /\ pr' = res.r
           /\ pret' = res.ret
           /\ pop' = "sub"
           /\ UNCHANGED <<pp, svars, rvars, hvars>>

PointIsValid ==
    /\ pop = "idle"
    /\ pret' = crypto_core_ed25519_is_valid_point(pp)
    /\ pop' = "is_valid_point"
    /\ UNCHANGED <<pp, pq, pr, svars, rvars, hvars>>

PointNext == PointAdd \/ PointSub \/ PointIsValid

-----------------------------------------------------------------------------
(* Hash-to-curve expansion *)

HASH_BYTES == 64

HASH_L == 48

\* a byte of a buffer that nothing has been stored in yet
Indeterminate == 0 - 1

Fresh(n) == [i \in 1..n |-> Indeterminate]

RECURSIVE Xor8(_, _)
Xor8(a, b) ==
    IF a = 0 /\ b = 0 THEN 0
    ELSE (((a % 2) + (b % 2)) % 2) + 2 * Xor8(a \div 2, b \div 2)

(* The hash primitive.  A state is the bytes absorbed so far; the digest is *)
(* a fixed function of all of them, of their order and of their number,    *)
(* whose 64 bytes differ from one another.                                  *)

crypto_hash_sha512_init == <<>>

crypto_hash_sha512_update(st, in, inlen) == st \o SubSeq(in, 1, inlen)

\* a weight for position i, and the weighted sum of the bytes first..last of m
Weight(i) == ((i * i) % 251) * 7 + (i % 13) + 1

RECURSIVE Absorb(_, _, _)
Absorb(m, first, last) ==
    IF first > last THEN 0
    ELSE IF first = last THEN ((m[first] + 1) * Weight(first)) % 65521
    ELSE LET middle == (first + last) \div 2
         IN (Absorb(m, first, middle) + Absorb(m, middle + 1, last)) % 65521

crypto_hash_sha512_final(st) ==
    LET a == Absorb(st, 1, Len(st))
    IN [k \in 1..HASH_BYTES |-> (((a % 251) + 1) * k + (a \div 251) + k * k) % 256]

\* ge25519_from_hash(p, h): a point of the main subgroup, canonically encoded
ge25519_from_hash(h) == PointEnc((8 * (Absorb(h, 1, Len(h)) % LInt)) % GroupOrder, TRUE)

crypto_core_ed25519_from_hash(h) == [ret |-> 0, r |-> ge25519_from_hash(h)]

\* strlen(s): the number of bytes before the first NUL
strlen(s) ==
    CHOOSE k \in 0..(Len(s) - 1) : s[k + 1] = 0 /\ \A j \in 1..k : s[j] # 0

\* a const char * argument: NULL, or a pointer to a NUL-terminated array
NullPtr == [null |-> TRUE, buf |-> <<>>]

Ptr(buf) == [null |-> FALSE, buf |-> buf]

\* "edwards25519_XMD:SHA-512_ELL2_NU_"
SUITE_NU ==
    <<101, 100, 119, 97, 114, 100, 115, 50, 53, 53, 49, 57, 95, 88, 77, 68, 58,
      83, 72, 65, 45, 53, 49, 50, 95, 69, 76, 76, 50, 95, 78, 85, 95, 0>>

\* "edwards25519_XMD:SHA-512_ELL2_RO_"
SUITE_RO ==
    <<101, 100, 119, 97, 114, 100, 115, 50, 53, 53, 49, 57, 95, 88, 77, 68, 58,
      83, 72, 65, 45, 53, 49, 50, 95, 69, 76, 76, 50, 95, 82, 79, 95, 0>>

\* sizeof of a string literal: its characters and the NUL
Sizeof(lit) == Len(lit)

(* _string_to_points, in the order of its statements *)

\* unsigned char t[4] = { 0U, n * HASH_L, 0U, 0 }
InitialT(n) == <<0, (n * HASH_L) % 256, 0, 0>>

\* size_t ctx_len = ctx != NULL ? strlen(ctx) : 0U
CtxLen(ctx) == IF ctx.null THEN 0 ELSE strlen(ctx.buf)

\* the test with the last comparison off by one
StringToPointsRejects_OffByOne(n, suite_len, ctx_len) ==
    n > 2 \/ suite_len > 255 \/ ctx_len >= 255 - suite_len

\* the test that returns -1; 0xff - suite_len is evaluated only when
\* suite_len <= 0xff, so it does not wrap
StringToPointsRejects(n, suite_len, ctx_len) ==
    n > 2 \/ suite_len > 255 \/ ctx_len > 255 - suite_len

\* the first hash with the length tag absorbed last, after suite and ctx
FirstHash_TagLast(msg, msg_len, t, suite, suite_len, ctx, ctx_len) ==
    LET empty_block == Zeros(128)
        st0 == crypto_hash_sha512_init
        st1 == crypto_hash_sha512_update(st0, empty_block, Len(empty_block))
        st2 == crypto_hash_sha512_update(st1, msg, msg_len)
        t1 == [t EXCEPT ![4] = ((suite_len % 256) + ctx_len) % 256]
        st3 == crypto_hash_sha512_update(st2, t1, 3)
        st4 == crypto_hash_sha512_update(st3, suite, suite_len)
        st5 == crypto_hash_sha512_update(st4, ctx.buf, ctx_len)
        st6 == crypto_hash_sha512_update(st5, SubSeq(t1, 4, 4), 1)
    IN [t |-> t1, input |-> st6]

\* the first hash: t after t[3] is set, and the bytes given to the hash
FirstHash(msg, msg_len, t, suite, suite_len, ctx, ctx_len) ==
    LET empty_block == Zeros(128)
        st0 == crypto_hash_sha512_init
        st1 == crypto_hash_sha512_update(st0, empty_block, Len(empty_block))
        st2 == crypto_hash_sha512_update(st1, msg, msg_len)
        t1 == [t EXCEPT ![4] = ((suite_len % 256) + ctx_len) % 256]
        st3 == crypto_hash_sha512_update(st2, t1, 4)
        st4 == crypto_hash_sha512_update(st3, suite, suite_len)
        st5 == crypto_hash_sha512_update(st4, ctx.buf, ctx_len)
    IN [t |-> t1, input |-> st5]

\* a pass of the block loop that leaves the XOR with the previous block out
BlockHash_NoChain(u, u0, t, i, suite, suite_len, ctx, ctx_len) ==
    LET u2 == MemcpyAt(u, i, u0)
        st0 == crypto_hash_sha512_init
        st1 == crypto_hash_sha512_update(st0, SubSeq(u2, i + 1, Len(u2)), HASH_BYTES)
        t1 == [t EXCEPT ![3] = (t[3] + 1) % 256]
        st2 == crypto_hash_sha512_update(st1, SubSeq(t1, 3, 4), 2)
        st3 == crypto_hash_sha512_update(st2, suite, suite_len)
        st4 == crypto_hash_sha512_update(st3, ctx.buf, ctx_len)
    IN [u |-> u2, t |-> t1, input |-> st4]

\* one pass of the block loop at byte offset i of u: u after the memcpy and
\* the XOR, t after t[2]++, and the bytes given to the hash
BlockHash(u, u0, t, i, suite, suite_len, ctx, ctx_len) ==
    LET u1 == MemcpyAt(u, i, u0)
        u2 == [j \in 1..Len(u1) |->
                 IF i > 0 /\ j > i /\ j <= i + HASH_BYTES
                 THEN Xor8(u1[j], u1[j - HASH_BYTES])
                 ELSE u1[j]]
        st0 == crypto_hash_sha512_init
        st1 == crypto_hash_sha512_update(st0, SubSeq(u2, i + 1, Len(u2)), HASH_BYTES)
        t1 == [t EXCEPT ![3] = (t[3] + 1) % 256]
        st2 == crypto_hash_sha512_update(st1, SubSeq(t1, 3, 4), 2)
        st3 == crypto_hash_sha512_update(st2, suite, suite_len)
        st4 == crypto_hash_sha512_update(st3, ctx.buf, ctx_len)
    IN [u |-> u2, t |-> t1, input |-> st4]

\* a pass of the mapping loop that reads the seed at i * HASH_BYTES
SeedBlock_PerDigest(u0, u, i) ==
    LET z == MemcpyAt(u0, 0, Zeros(HASH_BYTES - HASH_L))
    IN MemcpyAt(z, HASH_BYTES - HASH_L,
                SubSeq(u, i * HASH_BYTES + 1, i * HASH_BYTES + HASH_L))

\* one pass of the mapping loop for point i: u0 as given to ge25519_from_hash
SeedBlock(u0, u, i) ==
    LET z == MemcpyAt(u0, 0, Zeros(HASH_BYTES - HASH_L))
    IN MemcpyAt(z, HASH_BYTES - HASH_L, SubSeq(u, i * HASH_L + 1, i * HASH_L + HASH_L))

\* crypto_core_ed25519_from_string after _string_to_points returned ret with
\* px, which is the caller's p itself
FromStringReturn(p, ret, px) ==
    [ret |-> ret, r |-> px[1]]

\* the random-oracle variant refusing points the validator refuses
FromStringRoReturn_Validating(p, ret, px) ==
    IF ret # 0
    THEN [ret |-> 0 - 1, r |-> p]
    ELSE crypto_core_ed25519_add_Strict(p, px[1], px[2])

\* crypto_core_ed25519_from_string_ro after _string_to_points returned ret
FromStringRoReturn(p, ret, px) ==
    IF ret # 0
    THEN [ret |-> 0 - 1, r |-> p]
    ELSE crypto_core_ed25519_add(p, px[1], px[2])

(* The calls the model makes *)

MaxMsgLen == 1

MaxN == 3

MsgBytes == {0, 97}

Msgs == UNION {[1..k -> MsgBytes] : k \in 0..MaxMsgLen}

\* a string of k characters and its NUL
CString(k) == [i \in 1..(k + 1) |-> IF i <= k THEN 97 + (i % 26) ELSE 0]

CtxLens == {0, 1, 222, 223, 255, 256}

SuiteLens == {0, 1, 33, 254, 255, 256}

\* NULL, a string of each length, and a string in a longer array
CtxArgs ==
    {NullPtr} \cup {Ptr(CString(k)) : k \in CtxLens} \cup {Ptr(<<99, 0, 100, 0>>)}

ExpandIdle ==
    /\ hcaller = "none"
    /\ hn = 0
    /\ hsuite = <<>>
    /\ hsuite_len = 0
    /\ hctx = NullPtr
    /\ hmsg = <<>>
    /\ hpc = "idle"
    /\ hi = 0
    /\ ht = Fresh(4)
    /\ hu0 = Fresh(HASH_BYTES)
    /\ hu = Fresh(2 * HASH_BYTES)
    /\ hashLog = <<>>
    /\ fhLog = <<>>
    /\ hpx = <<NoPoint, NoPoint>>
    /\ hret = 0
    /\ hp = NoPoint
    /\ hres = 0

\* crypto_core_ed25519_from_string(p, ctx, msg, msg_len) calls the expansion
CallFromString ==
    /\ hpc = "idle"
    /\ \E ctx \in CtxArgs, msg \in Msgs :
        /\ hcaller' = "from_string"
        /\ hn' = 1
        /\ hsuite' = SUITE_NU
        /\ hsuite_len' = Sizeof(SUITE_NU) - 1
        /\ hctx' = ctx
        /\ hmsg' = msg
    /\ hpc' = "entry"
    /\ UNCHANGED <<hi, ht, hu0, hu, hashLog, fhLog, hpx, hret, hp, hres>>
    /\ UNCHANGED <<svars, rvars, pvars>>

\* crypto_core_ed25519_from_string_ro(p, ctx, msg, msg_len) calls the expansion
CallFromStringRo ==
    /\ hpc = "idle"
    /\ \E ctx \in CtxArgs, msg \in Msgs :
        /\ hcaller' = "from_string_ro"
        /\ hn' = 2
        /\ hsuite' = SUITE_RO
        /\ hsuite_len' = Sizeof(SUITE_RO) - 1
        /\ hctx' = ctx
        /\ hmsg' = msg
    /\ hpc' = "entry"
    /\ UNCHANGED <<hi, ht, hu0, hu, hashLog, fhLog, hpx, hret, hp, hres>>
    /\ UNCHANGED <<svars, rvars, pvars>>

\* _string_to_points called on arguments of its whole domain
CallStringToPoints ==
    /\ hpc = "idle"
    /\ \E n \in 0..MaxN, k \in SuiteLens, ctx \in CtxArgs, msg \in Msgs :
        /\ hcaller' = "direct"
        /\ hn' = n
        /\ hsuite' = CString(k)
        /\ hsuite_len' = k
        /\ hctx' = ctx
        /\ hmsg' = msg
    /\ hpc' = "entry"
    /\ UNCHANGED <<hi, ht, hu0, hu, hashLog, fhLog, hpx, hret, hp, hres>>
    /\ UNCHANGED <<svars, rvars, pvars>>

\* _string_to_points from its declarations to the digest u0
ExpandBegin ==
    /\ hpc = "entry"
    /\ LET t == InitialT(hn)
           ctx_len == CtxLen(hctx)
       IN IF StringToPointsRejects(hn, hsuite_len, ctx_len)
          THEN /\ ht' = t
               /\ hret' = 0 - 1
               /\ hpc' = "ret"
               /\ UNCHANGED <<hu0, hashLog>>
          ELSE LET h == FirstHash(hmsg, Len(hmsg), t, hsuite, hsuite_len,
                                  hctx, ctx_len)
                   d == crypto_hash_sha512_final(h.input)
               IN /\ ht' = h.t
                  /\ hu0' = d
                  /\ hashLog' = Append(hashLog, [input |-> h.input, digest |-> d])
                  /\ hret' = 0
                  /\ hpc' = IF 0 < hn * HASH_BYTES THEN "blocks" ELSE "ret"
    /\ hi' = 0
    /\ UNCHANGED <<hcaller, hn, hsuite, hsuite_len, hctx, hmsg, hu, fhLog,
                   hpx, hp, hres>>
    /\ UNCHANGED <<svars, rvars, pvars>>

\* one pass of the block loop
ExpandBlock ==
    /\ hpc = "blocks"
    /\ LET b == BlockHash(hu, hu0, ht, hi, hsuite, hsuite_len, hctx, CtxLen(hctx))
           d == crypto_hash_sha512_final(b.input)
       IN /\ hu' = MemcpyAt(b.u, hi, d)
          /\ ht' = b.t
          /\ hashLog' = Append(hashLog, [input |-> b.input, digest |-> d])
    /\ IF hi + HASH_BYTES < hn * HASH_BYTES
       THEN hi' = hi + HASH_BYTES /\ hpc' = "blocks"
       ELSE hi' = 0 /\ hpc' = "map"
    /\ UNCHANGED <<hcaller, hn, hsuite, hsuite_len, hctx, hmsg, hu0, fhLog,
                   hpx, hret, hp, hres>>
    /\ UNCHANGED <<svars, rvars, pvars>>

\* one pass of the mapping loop
ExpandMap ==
    /\ hpc = "map"
    /\ LET s == SeedBlock(hu0, hu, hi)
       IN /\ hu0' = s
          /\ fhLog' = Append(fhLog, s)
          /\ hpx' = [hpx EXCEPT ![hi + 1] = ge25519_from_hash(s)]
    /\ hi' = hi + 1
    /\ hpc' = IF hi + 1 < hn THEN "map" ELSE "ret"
    /\ hret' = 0
    /\ UNCHANGED <<hcaller, hn, hsuite, hsuite_len, hctx, hmsg, ht, hu,
                   hashLog, hp, hres>>
    /\ UNCHANGED <<svars, rvars, pvars>>

ReturnFromString ==
    /\ hpc = "ret" /\ hcaller = "from_string"
    /\ LET r == FromStringReturn(hp, hret, hpx)
       IN hres' = r.ret /\ hp' = r.r
    /\ hpc' = "done"
    /\ UNCHANGED <<hcaller, hn, hsuite, hsuite_len, hctx, hmsg, hi, ht, hu0, hu,
                   hashLog, fhLog, hpx, hret>>
    /\ UNCHANGED <<svars, rvars, pvars>>

ReturnFromStringRo ==
    /\ hpc = "ret" /\ hcaller = "from_string_ro"
    /\ LET r == FromStringRoReturn(hp, hret, hpx)
       IN hres' = r.ret /\ hp' = r.r
    /\ hpc' = "done"
    /\ UNCHANGED <<hcaller, hn, hsuite, hsuite_len, hctx, hmsg, hi, ht, hu0, hu,
                   hashLog, fhLog, hpx, hret>>
    /\ UNCHANGED <<svars, rvars, pvars>>

ReturnDirect ==
    /\ hpc = "ret" /\ hcaller = "direct"
    /\ hres' = hret
    /\ hpc' = "done"
    /\ UNCHANGED <<hcaller, hn, hsuite, hsuite_len, hctx, hmsg, hi, ht, hu0, hu,
                   hashLog, fhLog, hpx, hret, hp>>
    /\ UNCHANGED <<svars, rvars, pvars>>

ExpandNext ==
    \/ CallFromString \/ CallFromStringRo \/ CallStringToPoints
    \/ ExpandBegin \/ ExpandBlock \/ ExpandMap
    \/ ReturnFromString \/ ReturnFromStringRo \/ ReturnDirect

-----------------------------------------------------------------------------
(* Specifications, one per component *)

InitScalar ==
    /\ sx \in Scalars
    /\ sy = Zeros(SCALARBYTES) /\ sz = NoScalar /\ sret = 0 /\ shist = <<>>
    /\ RandomIdle /\ PointIdle /\ ExpandIdle

SpecScalar == InitScalar /\ [][ScalarNext]_vars

InitRandom == ScalarIdle /\ RandomIdle /\ PointIdle /\ ExpandIdle

\* the randomness source is fair: it does not withhold forever a draw that
\* the loop accepts
SpecRandom == InitRandom /\ [][RandomNext]_vars /\ WF_vars(RandomReturn)

InitPoint ==
    /\ pp \in Encodings
    /\ pq = NoPoint /\ pr = NoPoint /\ pret = 0 /\ pop = "idle"
    /\ ScalarIdle /\ RandomIdle /\ ExpandIdle

SpecPoint == InitPoint /\ [][PointNext]_vars

InitExpand == ScalarIdle /\ RandomIdle /\ PointIdle /\ ExpandIdle

SpecExpand == InitExpand /\ [][ExpandNext]_vars

-----------------------------------------------------------------------------
(* Properties of the hash-to-curve expansion (SpecExpand) *)

\* the length of the context string: its bytes before the first NUL, 0 for NULL
CtxLength ==
    IF hctx.null THEN 0
    ELSE Cardinality({k \in 1..Len(hctx.buf) : \A j \in 1..k : hctx.buf[j] # 0})

SuiteBytes == SubSeq(hsuite, 1, hsuite_len)

CtxBytes == IF hctx.null THEN <<>> ELSE SubSeq(hctx.buf, 1, CtxLength)

BigEndian16(v) == <<(v \div 256) % 256, v % 256>>

Returned == hpc \in {"ret", "done"}

\* C1: _string_to_points returns -1 exactly when n > 2, or suite_len > 255,
\* or the context is longer than 255 - suite_len; when it returns -1 no hash
\* has been computed and no point written; with n <= 2 and suite and context
\* lengths adding up to exactly 255 it returns 0.
C1_RejectsExactlyOversized ==
    Returned =>
        /\ hret \in {0, 0 - 1}
        /\ (hret = 0 - 1) <=>
               (hn > 2 \/ hsuite_len > 255 \/ CtxLength > 255 - hsuite_len)
        /\ hret = 0 - 1 =>
               /\ hashLog = <<>>
               /\ fhLog = <<>>
               /\ hpx = <<NoPoint, NoPoint>>
        /\ (hn <= 2 /\ hsuite_len + CtxLength = 255) => hret = 0

C1_Witness ==
    /\ hpc = "done" /\ hret = 0
    /\ hsuite_len > 0 /\ CtxLength > 0 /\ hsuite_len + CtxLength = 255
    /\ hn = 2 /\ Len(hashLog) = 3

\* the point the group law gives for two encodings of curve elements
GroupSum(a, b) == PointEnc((a.e + b.e) % GroupOrder, TRUE)

\* C2: from_string and from_string_ro return -1 exactly when the context is
\* longer than 255 - 33; otherwise from_string returns 0 with the one mapped
\* point and from_string_ro returns 0 with the sum of the two mapped points.
C2_WrappersFailOnlyOnLength ==
    (hpc = "done" /\ hcaller \in {"from_string", "from_string_ro"}) =>
        /\ hres \in {0, 0 - 1}
        /\ (hres = 0 - 1) <=> (CtxLength > 255 - 33)
        /\ hres = 0 - 1 => hp = NoPoint
        /\ (hres = 0 /\ hcaller = "from_string") =>
               /\ Len(fhLog) = 1
               /\ hp = ge25519_from_hash(fhLog[1])
        /\ (hres = 0 /\ hcaller = "from_string_ro") =>
               /\ Len(fhLog) = 2
               /\ hp = GroupSum(ge25519_from_hash(fhLog[1]),
                                ge25519_from_hash(fhLog[2]))

C2_Witness ==
    /\ hpc = "done" /\ hcaller = "from_string_ro" /\ hres = 0
    /\ CtxLength = 255 - 33
    /\ hpx[1] # hpx[2]
    /\ hp.k = "pt"

\* C3 as stated: the first hash absorbs 128 zero bytes, msg, the two bytes
\* big-endian-16(n * 48), one 0x00 byte, suite, ctx, and last the byte
\* len(suite) + len(ctx).
C3_TagIsTrailing ==
    hashLog # <<>> =>
        hashLog[1].input =
            Zeros(128) \o hmsg \o BigEndian16(hn * 48) \o <<0>>
                \o SuiteBytes \o CtxBytes \o <<hsuite_len + CtxLength>>

\* C3, amended: the first hash absorbs 128 zero bytes, msg, the two bytes
\* big-endian-16(n * 48), one 0x00 byte, the byte len(suite) + len(ctx), then
\* suite, then ctx: the length tag comes before suite and ctx, not after; u0
\* is the digest of these bytes.
C3_TagPrecedesSuite ==
    hashLog # <<>> =>
        /\ hashLog[1].input =
               Zeros(128) \o hmsg \o BigEndian16(hn * 48) \o <<0>>
                   \o <<hsuite_len + CtxLength>> \o SuiteBytes \o CtxBytes
        /\ hpc = "blocks" => hu0 = hashLog[1].digest

C3_Witness ==
    /\ hpc = "blocks" /\ Len(hashLog) = 1
    /\ hmsg # <<>> /\ hsuite_len > 0 /\ CtxLength > 0

\* the digest u_i of block i, and the digests of all blocks end to end
BlockDigest(i) == hashLog[i + 2].digest

RECURSIVE DigestsUpTo(_)
DigestsUpTo(i) == IF i < 0 THEN <<>> ELSE DigestsUpTo(i - 1) \o BlockDigest(i)

Succeeded == Returned /\ hret = 0 /\ hn \in {1, 2}

\* C4 as stated: the seed of point i is the last 48 bytes of the digest u_i,
\* and from_hash is given 16 zero bytes followed by it.
C4_SeedIsTailOfOwnDigest ==
    Succeeded =>
        /\ Len(fhLog) = hn
        /\ \A i \in 0..(hn - 1) :
               fhLog[i + 1] = Zeros(16) \o SubSeq(BlockDigest(i), 17, 64)

\* C4, amended: the seed of point i is bytes 48*i .. 48*i + 47 of the digests
\* u_0, u_1 laid end to end (the first 48 bytes of u_0 for point 0; the last 16
\* bytes of u_0 followed by the first 32 bytes of u_1 for point 1), and
\* from_hash is given 16 zero bytes followed by it.
C4_SeedIsSliceOfDigests ==
    Succeeded =>
        /\ Len(hashLog) = hn + 1
        /\ Len(fhLog) = hn
        /\ \A i \in 0..(hn - 1) :
               fhLog[i + 1] =
                   Zeros(16) \o SubSeq(DigestsUpTo(hn - 1), 48 * i + 1, 48 * i + 48)
        /\ \A i \in 0..(hn - 1) : hpx[i + 1] = ge25519_from_hash(fhLog[i + 1])

C4_Witness ==
    /\ hpc = "done" /\ hret = 0 /\ hn = 2 /\ Len(fhLog) = 2
    /\ SubSeq(fhLog[2], 17, 32) = SubSeq(BlockDigest(0), 49, 64)
    /\ SubSeq(BlockDigest(1), 1, 48) # SubSeq(BlockDigest(1), 17, 64)

\* C10: for every block i hashed so far, the first 64 bytes given to the hash
\* are u0 when i = 0 and u0 XOR the digest of block i - 1 when i > 0, and the
\* byte that follows them is i + 1; a successful call has hashed n blocks.
C10_BlockChaining ==
    /\ \A i \in 0..(Len(hashLog) - 2) :
           /\ i < hn
           /\ SubSeq(hashLog[i + 2].input, 1, 64) =
                  IF i = 0 THEN hashLog[1].digest
                  ELSE [j \in 1..64 |->
                           Xor8(hashLog[1].digest[j], BlockDigest(i - 1)[j])]
           /\ hashLog[i + 2].input[65] = i + 1
    /\ (Returned /\ hret = 0) => Len(hashLog) = hn + 1

C10_Witness ==
    /\ Len(hashLog) = 3 /\ hn = 2
    /\ BlockDigest(0) # SubSeq(hashLog[2].input, 1, 64)
    /\ SubSeq(hashLog[3].input, 1, 64) # hashLog[1].digest
    /\ hashLog[3].input[65] = 2

-----------------------------------------------------------------------------
(* Properties of the group operations (SpecPoint) *)

\* the operand decodes and the decoded element is on the curve
DecodesOnCurve(s) == s.k = "pt"

\* C9: add and sub return -1 exactly when an operand does not decode or is off
\* the curve, and then leave the output buffer unwritten; on every other pair
\* they return 0 and write the result, whether or not the operands are
\* canonical, of small order or in the main subgroup.
C9_GroupOpsCheckOnlyDecoding ==
    pop \in {"add", "sub"} =>
        /\ pret \in {0, 0 - 1}
        /\ (pret = 0 - 1) <=> ~(DecodesOnCurve(pp) /\ DecodesOnCurve(pq))
        /\ pret = 0 - 1 => pr = NoPoint
        /\ pret = 0 =>
               pr = PointEnc((IF pop = "add" THEN pp.e + pq.e
                              ELSE pp.e + GroupOrder - pq.e) % GroupOrder, TRUE)

C9_Witness ==
    /\ pop = "add" /\ pret = 0
    /\ ~pp.c /\ pp.e % 8 # 0
    /\ pq = PointEnc(0, TRUE)
    /\ crypto_core_ed25519_is_valid_point(pp) = 0
    /\ crypto_core_ed25519_is_valid_point(pq) = 0
    /\ pr = PointEnc(pp.e, TRUE)

-----------------------------------------------------------------------------
(* Properties of crypto_core_ed25519_scalar_random (SpecRandom) *)

\* the value of a draw once the top three bits of its last byte are cleared
MaskedValue(b) == LoadLE(b) % (2 ^ (8 * SCALARBYTES - 3))

\* C8: whatever the source yields, the value returned is r with 0 < r < L;
\* every pass stores the draw with the top three bits of its last byte
\* cleared, returns if that value is canonical and non-zero and goes round
\* again if not; under a fair source the function returns.
C8_RandomScalarInRange ==
    /\ [](rpc = "done" => (0 < LoadLE(rr) /\ LoadLE(rr) < LInt))
    /\ [][rpc = "loop" =>
            /\ LoadLE(rr') = MaskedValue(rraw')
            /\ (rpc' = "done") <=>
                   (0 < MaskedValue(rraw') /\ MaskedValue(rraw') < LInt)]_rvars
    /\ <>(rpc = "done")

C8_Witness ==
    /\ rpc = "done"
    /\ LoadLE(rraw) >= 2 ^ (8 * SCALARBYTES - 3)
    /\ LoadLE(rr) = LInt - 1

-----------------------------------------------------------------------------
(* Properties of the scalar ring (SpecScalar) *)

Canonical(s) == LoadLE(s) < LInt

Did(op, args) == [op |-> op, args |-> args]

\* C5 as stated: for every pair of inputs, canonical or not, add returns
\* (x + y) mod L for the full integer sum x + y.
C5_AddIsFullSum ==
    shist = <<Did("add", "xy")>> =>
        LoadLE(sz) = (LoadLE(sx) + LoadLE(sy)) % LInt

\* C6: for canonical x and y: sub(add(x, y), y) = x, add(x, negate(x)) = 0,
\* add(x, complement(x)) = 1, negate(x) = (L * 2^256 - x) mod L (so
\* negate(0) = 0), complement(x) = (L * 2^256 + 1 - x) mod L, and
\* sub(x, y) = add(x, negate(y)) = (x - y) mod L.
C6_RingIdentities ==
    (Canonical(sx) /\ Canonical(sy)) =>
        /\ shist = <<Did("add", "xy"), Did("sub", "zy")>> => sz = sx
        /\ shist = <<Did("negate", "x"), Did("add", "xz")>> =>
               sz = StoreLE(0, SCALARBYTES)
        /\ shist = <<Did("complement", "x"), Did("add", "xz")>> =>
               sz = StoreLE(1, SCALARBYTES)
        /\ shist = <<Did("negate", "x")>> =>
               /\ LoadLE(sz) =
                      (LInt * 2 ^ (8 * SCALARBYTES) - LoadLE(sx)) % LInt
               /\ LoadLE(sx) = 0 => LoadLE(sz) = 0
        /\ shist = <<Did("complement", "x")>> =>
               LoadLE(sz) =
                   (LInt * 2 ^ (8 * SCALARBYTES) + 1 - LoadLE(sx)) % LInt
        /\ shist = <<Did("sub", "xy")>> =>
               /\ sz = crypto_core_ed25519_scalar_add(
                           sx, crypto_core_ed25519_scalar_negate(sy))
               /\ LoadLE(sz) = (LoadLE(sx) + LInt - LoadLE(sy)) % LInt

C6_Witness ==
    /\ shist = <<Did("add", "xy"), Did("sub", "zy")>>
    /\ Canonical(sx) /\ Canonical(sy)
    /\ LoadLE(sy) > 0
    /\ LoadLE(sx) + LoadLE(sy) >= LInt
    /\ sz = sx

\* C7 as stated: for every input x, invert returns -1 when x is 0 modulo L
\* and otherwise returns 0 with mul(x, invert(x)) = 1; either way the result
\* buffer holds what the primitive computed.
C7_InvertFailsOnZeroModL ==
    (shist # <<>> /\ shist[1] = Did("invert", "x")) =>
        /\ LoadLE(sx) % LInt = 0 => sret = 0 - 1
        /\ LoadLE(sx) % LInt # 0 =>
               /\ sret = 0
               /\ shist = <<Did("invert", "x"), Did("mul", "xz")>> =>
                      LoadLE(sz) = 1
        /\ Len(shist) = 1 => sz = sc25519_invert(sx)

=============================================================================
